---- MODULE Spec2Model ----
(***************************************************************************)
(* Model of android::FileMap (libutils/jni/FileMap.cpp): a move-only       *)
(* owner of one memory mapping of a byte range of an open file.            *)
(*                                                                         *)
(* The state is the fields of a small set of FileMap objects, the static   *)
(* FileMap::mPageSize, and the part of the operating system the class      *)
(* talks to: the mappings it handed out, the strdup'ed names and (MinGW)   *)
(* the file-mapping handles, each with the number of times it was          *)
(* released.  The build (POSIX or MinGW, assert() compiled in or out) is   *)
(* chosen once, in Init.                                                   *)
(***************************************************************************)
EXTENDS Integers, FiniteSets, Sequences, TLC

\* ------------------------------------------------------------------ bounds
NumInst == 2            \* FileMap objects of one run
MaxMaps == 2            \* mappings the OS hands out in one run
PageSize == 2           \* the OS page size / allocation granularity
MaxOffset == 35         \* largest file offset passed to create: past the DWORD range, not page aligned
MaxLength == 1          \* largest ordinary length passed to create
MaxQueryFailures == 1   \* times sysconf(_SC_PAGESIZE) may fail in one run
SizeBits == 4           \* width of size_t, scaled down
DwordBits == 5          \* width of DWORD, scaled down

\* --------------------------------------------------------------- constants
NULL == 0
INVALID_HANDLE_VALUE == -1
MAP_FAILED == -1

Inst == 1..NumInst
MapIds == 1..MaxMaps
Offsets == {0, MaxOffset}
SizeMod == 2^SizeBits
SIZE_MAX == SizeMod - 1
Lengths == (0..MaxLength) \cup {SIZE_MAX}
\* File descriptors: -1 is not open, 3 is open O_RDWR.
Fds == {-1, 3}
Writable(fd) == fd = 3
Names == {"null", "path"}
MapAdvice == {"NORMAL", "RANDOM", "SEQUENTIAL", "WILLNEED", "DONTNEED", "OTHER"}

\* ------------------------------------------------- the operating system
\* Addresses: mapping m lives at a page-aligned base of its own.
RegionStride == PageSize * SizeMod
MapBase(m) == m * RegionStride
MapOf(ptr) == ptr \div RegionStride
\* strdup for mapping m returns a block of its own; CreateFileMapping a handle.
NameAddr(m) == m
MappingHandle(m) == m
\* _get_osfhandle(fd)
OsfHandle(fd) == IF fd >= 0 THEN fd ELSE INVALID_HANDLE_VALUE
\* The largest length the address space can host.
MaxMappable == MaxLength + PageSize
\* mmap(NULL, len, prot, MAP_SHARED, fd, off): EBADF, EINVAL (len = 0, or off
\* not a multiple of the page size), ENOMEM, EACCES (PROT_WRITE on a descriptor
\* not open for writing).
MmapCanSucceed(fd, len, prot, off) ==
    /\ fd >= 0
    /\ len > 0 /\ len <= MaxMappable
    /\ off % PageSize = 0
    /\ prot = "rw" => Writable(fd)
\* CreateFileMapping(h, NULL, protect, 0, 0, NULL)
CreateFileMappingCanSucceed(fd, prot) == fd >= 0 /\ (prot = "rw" => Writable(fd))
\* MapViewOfFile(h, access, 0, off, len): len = 0 maps to the end of the file;
\* off must be a multiple of the allocation granularity.
MapViewCanSucceed(len, off) == len <= MaxMappable /\ off % PageSize = 0
\* munmap(base, len): EINVAL when len = 0.
MunmapReleases(len) == len > 0

\* ------------------------------------------------------ integer widths
SizeT(x) == x % SizeMod
DWORD(x) == x % (2^DwordBits)

VARIABLES
    platform,       \* "posix" | "mingw": which #if branch was compiled
    ndebug,         \* TRUE when assert() is compiled out
    aborted,        \* TRUE once an assert() has failed
    mPageSize,      \* static long FileMap::mPageSize
    status,         \* per object: "unborn" | "live" | "dead"
    obj,            \* per object: its fields
    nextMap,        \* the id of the next mapping the OS hands out
    unmapCount,     \* per mapping: successful munmap / UnmapViewOfFile calls
    nameFrees,      \* per mapping: free() calls on the name strdup'ed with it
    handleCloses,   \* per mapping: CloseHandle calls on its file-mapping handle
    queryFailures,  \* failed page-size queries so far
    lastOp,         \* the last call: its arguments, OS calls and result
    pc,             \* per thread: its position in a create that runs concurrently
    reg             \* per thread: the arguments and locals of that create

vars == <<platform, ndebug, aborted, mPageSize, status, obj, nextMap, unmapCount,
          nameFrees, handleCloses, queryFailures, lastOp, pc, reg>>

build == <<platform, ndebug>>
osState == <<nextMap, unmapCount, nameFrees, handleCloses>>
threads == <<pc, reg>>

\* The builds: the MinGW branch of create has no assert() that can fail and the
\* _WIN32 advise has none at all, so NDEBUG makes no difference there.
Builds == {<<"posix", FALSE>>, <<"posix", TRUE>>, <<"mingw", TRUE>>}

\* ------------------------------------------------------------ the object
Blank ==
    [mFileName |-> NULL, mBasePtr |-> NULL, mBaseLength |-> 0, mDataOffset |-> 0,
     mDataPtr |-> NULL, mDataLength |-> 0,
     mFileHandle |-> INVALID_HANDLE_VALUE, mFileMapping |-> NULL]

\* FileMap::FileMap(void): mDataOffset is not in the initialiser list, so it
\* holds whatever the storage held.
Indeterminate == {0, MaxOffset}
DefaultFields(garbage) == [Blank EXCEPT !.mDataOffset = garbage]

\* The record of a call.
Idle ==
    [op |-> "init", self |-> 0, other |-> 0, ret |-> "none", query |-> "none",
     cfm |-> "none", mapCall |-> "none", reqOff |-> 0, reqLen |-> 0,
     opened |-> 0, closed |-> 0, unmaps |-> 0, frees |-> 0,
     adv |-> "none", advBase |-> 0, advLen |-> 0, cc |-> "none"]

\* The locals of a create: offset, length, the mPageSize read at line 185 / 149
\* (0 before that line), adjust, adjOffset, adjLength and the return value.
NoCall ==
    [offset |-> 0, length |-> 0, ps |-> 0, adjust |-> 0, adjOffset |-> 0,
     adjLength |-> 0, ret |-> "none"]

Init ==
    /\ \E b \in Builds : platform = b[1] /\ ndebug = b[2]
    /\ pc = [t \in Inst |-> "idle"]
    /\ reg = [t \in Inst |-> NoCall]
    /\ aborted = FALSE
    /\ mPageSize = -1
    /\ status = [i \in Inst |-> "unborn"]
    /\ obj = [i \in Inst |-> Blank]
    /\ nextMap = 1
    /\ unmapCount = [m \in MapIds |-> 0]
    /\ nameFrees = [m \in MapIds |-> 0]
    /\ handleCloses = [m \in MapIds |-> 0]
    /\ queryFailures = 0
    /\ lastOp = Idle

\* ------------------------------------------------------------ constructor
DefaultConstruct(i) ==
    /\ UNCHANGED threads
    /\ ~aborted
    /\ status[i] = "unborn"
    /\ \E garbage \in Indeterminate :
         obj' = [obj EXCEPT ![i] = DefaultFields(garbage)]
    /\ status' = [status EXCEPT ![i] = "live"]
    /\ lastOp' = [Idle EXCEPT !.op = "construct", !.self = i]
    /\ UNCHANGED <<build, aborted, mPageSize, osState, queryFailures>>

\* ------------------------------------------------------- move constructor
\* A move constructor that forgets to reset the source.
MoveConstructKeepsSource(o, d, s) == [o EXCEPT ![d] = o[s]]

\* FileMap::FileMap(FileMap &&other): the fields after the initialiser list
\* and the body, for the new object d built from s.
MoveConstructFields(o, d, s) ==
    LET taken == IF platform = "mingw"
                 THEN o[s]
                 ELSE [o[s] EXCEPT !.mFileHandle = Blank.mFileHandle,
                                   !.mFileMapping = Blank.mFileMapping]
        o1 == [o EXCEPT ![d] = taken]
        o2 == [o1 EXCEPT ![s].mFileName = NULL, ![s].mBasePtr = NULL,
                         ![s].mDataPtr = NULL]
    IN  IF platform = "mingw"
        THEN [o2 EXCEPT ![s].mFileHandle = INVALID_HANDLE_VALUE,
                        ![s].mFileMapping = NULL]
        ELSE o2

MoveConstruct(d, s) ==
    /\ UNCHANGED threads
    /\ ~aborted
    /\ status[d] = "unborn"
    /\ status[s] = "live"
    /\ obj' = MoveConstructFields(obj, d, s)
    /\ status' = [status EXCEPT ![d] = "live"]
    /\ lastOp' = [Idle EXCEPT !.op = "moveConstruct", !.self = d, !.other = s]
    /\ UNCHANGED <<build, aborted, mPageSize, osState, queryFailures>>

\* ------------------------------------------------------- move assignment
\* FileMap::operator=(FileMap &&other): the statements in their order, each
\* reading the fields the earlier ones wrote (d and s may be one object).
MoveAssignFields(o, d, s) ==
    LET o1 == [o  EXCEPT ![d].mFileName = o[s].mFileName]
        o2 == [o1 EXCEPT ![d].mBasePtr = o1[s].mBasePtr]
        o3 == [o2 EXCEPT ![d].mBaseLength = o2[s].mBaseLength]
        o4 == [o3 EXCEPT ![d].mDataOffset = o3[s].mDataOffset]
        o5 == [o4 EXCEPT ![d].mDataPtr = o4[s].mDataPtr]
        o6 == [o5 EXCEPT ![d].mDataLength = o5[s].mDataLength]
        o7 == [o6 EXCEPT ![s].mFileName = NULL]
        o8 == [o7 EXCEPT ![s].mBasePtr = NULL]
        o9 == [o8 EXCEPT ![s].mDataPtr = NULL]
        w1 == [o9 EXCEPT ![d].mFileHandle = o9[s].mFileHandle]
        w2 == [w1 EXCEPT ![d].mFileMapping = w1[s].mFileMapping]
        w3 == [w2 EXCEPT ![s].mFileHandle = INVALID_HANDLE_VALUE]
        w4 == [w3 EXCEPT ![s].mFileMapping = NULL]
    IN  IF platform = "mingw" THEN w4 ELSE o9

MoveAssign(d, s) ==
    /\ UNCHANGED threads
    /\ ~aborted
    /\ status[d] = "live"
    /\ status[s] = "live"
    /\ obj' = MoveAssignFields(obj, d, s)
    /\ lastOp' = [Idle EXCEPT !.op = "moveAssign", !.self = d, !.other = s]
    /\ UNCHANGED <<build, aborted, mPageSize, status, osState, queryFailures>>

\* ------------------------------------------------------------ destructor
\* A destructor that releases without testing its pointers.
DestructorUnguarded(r) ==
    [free |-> TRUE, unmap |-> TRUE, close |-> platform = "mingw"]

\* FileMap::~FileMap: which release calls the destructor issues for fields r.
DestructorCalls(r) ==
    [free  |-> r.mFileName # NULL,
     unmap |-> r.mBasePtr # NULL,
     close |-> platform = "mingw" /\ r.mFileMapping # NULL]

\* Whether the unmap call issued for fields r releases the mapping.
UnmapReleases(r) ==
    IF platform = "mingw" THEN TRUE ELSE MunmapReleases(r.mBaseLength)

Bump(f, k) == [f EXCEPT ![k] = @ + 1]

Destroy(i) ==
    /\ UNCHANGED threads
    /\ ~aborted
    /\ status[i] = "live"
    /\ LET r == obj[i]
           c == DestructorCalls(r)
       IN  /\ nameFrees' = IF c.free THEN Bump(nameFrees, r.mFileName) ELSE nameFrees
           /\ unmapCount' = IF c.unmap /\ UnmapReleases(r)
                            THEN Bump(unmapCount, MapOf(r.mBasePtr))
                            ELSE unmapCount
           /\ handleCloses' = IF c.close THEN Bump(handleCloses, r.mFileMapping)
                              ELSE handleCloses
           /\ lastOp' = [Idle EXCEPT !.op = "destroy", !.self = i,
                                     !.frees = IF c.free THEN 1 ELSE 0,
                                     !.unmaps = IF c.unmap THEN 1 ELSE 0,
                                     !.closed = IF c.close THEN 1 ELSE 0]
    /\ status' = [status EXCEPT ![i] = "dead"]
    /\ obj' = [obj EXCEPT ![i] = Blank]
    /\ UNCHANGED <<build, aborted, mPageSize, nextMap, queryFailures>>

\* ------------------------------------------------------------------ create
\* assert(fd >= 0); assert(offset >= 0); assert(length > 0);
AssertsHold(fd, offset, length) == fd >= 0 /\ offset >= 0 /\ length > 0

\* A create that asks the OS for the page size on every call.
QueryOnEveryCall(cached) == TRUE

\* if (mPageSize == -1): init on first use
NeedsQuery(cached) == cached = -1

\* A page-size query that falls back to a default when the OS call fails.
PageSizeWithFallback(sys) == IF sys = -1 THEN PageSize ELSE sys

\* mPageSize = sysconf(_SC_PAGESIZE) / mPageSize = si.dwAllocationGranularity
PageSizeAfterQuery(sys) == sys

\* adjust = offset % mPageSize (the remainder of C: for offset >= 0 that of
\* |mPageSize|); adjOffset = offset - adjust;
\* adjLength = length + adjust (a size_t)
Adjust(offset, ps) == IF ps > 0 THEN offset % ps ELSE offset % (-ps)
AdjOffset(offset, adjust) == offset - adjust
AdjLength(length, adjust) == SizeT(length + adjust)

Prot(readOnly) == IF readOnly THEN "r" ELSE "rw"

\* What sysconf may answer now: the page size, or -1.
SysconfResults ==
    {PageSize} \cup (IF queryFailures < MaxQueryFailures THEN {-1} ELSE {})

\* A create that stores mmap's result in mBasePtr before testing it.
MmapFailedStoresResult(r) == [r EXCEPT !.mBasePtr = MAP_FAILED]

\* The fields a failed mmap leaves: ptr is a local, mBasePtr is not written.
MmapFailedFields(r) == r

\* The tail of create, common to both platforms, for mapping m at base.
CreatedFields(r, base, origFileName, m, offset, length, adjust, adjLength) ==
    [r EXCEPT !.mFileName = IF origFileName # "null" THEN NameAddr(m) ELSE NULL,
              !.mBaseLength = adjLength,
              !.mDataOffset = offset,
              !.mDataPtr = base + adjust,
              !.mDataLength = length]

CreateCall(i) == [Idle EXCEPT !.op = "create", !.self = i]

CreateAborts(i) ==
    /\ aborted' = TRUE
    /\ lastOp' = [CreateCall(i) EXCEPT !.ret = "abort"]
    /\ UNCHANGED <<build, mPageSize, status, obj, osState,
                   queryFailures>>

CreateSucceeds(i, fields, call) ==
    /\ obj' = [obj EXCEPT ![i] = fields]
    /\ nextMap' = nextMap + 1
    /\ lastOp' = [call EXCEPT !.ret = "true", !.mapCall = "ok"]
    /\ UNCHANGED <<build, aborted, status, unmapCount, nameFrees, handleCloses>>

CreateFails(i, fields, call) ==
    /\ obj' = [obj EXCEPT ![i] = fields]
    /\ lastOp' = [call EXCEPT !.ret = "false"]
    /\ UNCHANGED <<build, aborted, status, osState>>

\* The #else branch (lines 166-200) and the common tail.
CreatePosix(i, origFileName, fd, offset, length, readOnly) ==
    /\ UNCHANGED threads
    /\ platform = "posix"
    /\ ~aborted
    /\ status[i] = "live"
    /\ IF ~ndebug /\ ~AssertsHold(fd, offset, length)
       THEN CreateAborts(i)
       ELSE \E sys \in (IF NeedsQuery(mPageSize) THEN SysconfResults ELSE {mPageSize}) :
              LET query == NeedsQuery(mPageSize)
                  ps == IF query THEN PageSizeAfterQuery(sys) ELSE mPageSize
                  asked == IF ~query THEN "none"
                           ELSE IF sys = -1 THEN "fail" ELSE "ok"
                  call == [CreateCall(i) EXCEPT !.query = asked]
              IN  /\ mPageSize' = ps
                  /\ queryFailures' = IF asked = "fail" THEN queryFailures + 1
                                      ELSE queryFailures
                  /\ IF ps = -1
                     THEN CreateFails(i, obj[i], call)
                     ELSE LET adjust == Adjust(offset, ps)
                              adjOffset == AdjOffset(offset, adjust)
                              adjLength == AdjLength(length, adjust)
                              can == /\ nextMap <= MaxMaps
                                     /\ MmapCanSucceed(fd, adjLength, Prot(readOnly), adjOffset)
                              base == MapBase(nextMap)
                              req == [call EXCEPT !.reqOff = adjOffset,
                                                  !.reqLen = adjLength]
                          IN  \E ok \in {can, FALSE} :
                              IF ok
                              THEN CreateSucceeds(i,
                                     CreatedFields([obj[i] EXCEPT !.mBasePtr = base],
                                                   base, origFileName, nextMap,
                                                   offset, length, adjust, adjLength),
                                     req)
                              ELSE CreateFails(i, MmapFailedFields(obj[i]),
                                               [req EXCEPT !.mapCall = "fail"])

\* The __MINGW32__ branch (lines 128-164) and the common tail.
CreateMingw(i, origFileName, fd, offset, length, readOnly) ==
    /\ UNCHANGED threads
    /\ platform = "mingw"
    /\ ~aborted
    /\ status[i] = "live"
    /\ \E cfmOk \in {CreateFileMappingCanSucceed(fd, Prot(readOnly)), FALSE} :
         LET query == NeedsQuery(mPageSize)
             ps == IF query THEN PageSizeAfterQuery(PageSize) ELSE mPageSize
             call == [CreateCall(i) EXCEPT !.query = IF query THEN "ok" ELSE "none"]
             r1 == [obj[i] EXCEPT !.mFileHandle = OsfHandle(fd)]
         IN  /\ mPageSize' = ps
             /\ UNCHANGED queryFailures
             /\ IF ~cfmOk
                THEN CreateFails(i, [r1 EXCEPT !.mFileMapping = NULL],
                                 [call EXCEPT !.cfm = "fail"])
                ELSE LET adjust == Adjust(offset, ps)
                         adjOffset == AdjOffset(offset, adjust)
                         adjLength == AdjLength(length, adjust)
                         req == [call EXCEPT !.cfm = "ok", !.opened = 1,
                                             !.reqOff = DWORD(adjOffset),
                                             !.reqLen = adjLength]
                         can == /\ nextMap <= MaxMaps
                                /\ MapViewCanSucceed(adjLength, DWORD(adjOffset))
                         base == MapBase(nextMap)
                     IN  \E ok \in {can, FALSE} :
                         IF ok
                         THEN CreateSucceeds(i,
                                CreatedFields([r1 EXCEPT !.mFileMapping = MappingHandle(nextMap),
                                                         !.mBasePtr = base],
                                              base, origFileName, nextMap,
                                              offset, length, adjust, adjLength),
                                req)
                         ELSE CreateFails(i, [r1 EXCEPT !.mBasePtr = NULL,
                                                        !.mFileMapping = NULL],
                                          [req EXCEPT !.mapCall = "fail", !.closed = 1])

\* ------------------------------------------------------------------ advise
\* A switch that gives every hint the same platform advice.
SysAdviceCollapsed(advice) == IF advice = "OTHER" THEN "none" ELSE "MADV_NORMAL"

\* The switch of advise: the platform advice of a MapAdvice, "none" for default.
SysAdvice(advice) ==
    CASE advice = "NORMAL" -> "MADV_NORMAL"
      [] advice = "RANDOM" -> "MADV_RANDOM"
      [] advice = "SEQUENTIAL" -> "MADV_SEQUENTIAL"
      [] advice = "WILLNEED" -> "MADV_WILLNEED"
      [] advice = "DONTNEED" -> "MADV_DONTNEED"
      [] OTHER -> "none"

AdviseCall(i) == [Idle EXCEPT !.op = "advise", !.self = i]

\* int FileMap::advise(MapAdvice advice), !defined(_WIN32)
AdvisePosix(i, advice) ==
    /\ UNCHANGED threads
    /\ platform = "posix"
    /\ ~aborted
    /\ status[i] = "live"
    /\ IF SysAdvice(advice) = "none"
       THEN /\ aborted' = ~ndebug
            /\ lastOp' = [AdviseCall(i) EXCEPT !.ret = IF ndebug THEN "-1" ELSE "abort"]
       ELSE /\ \E cc \in {"0", "-1"} :
                 lastOp' = [AdviseCall(i) EXCEPT !.ret = cc,
                                                 !.cc = cc,
                                                 !.adv = SysAdvice(advice),
                                                 !.advBase = obj[i].mBasePtr,
                                                 !.advLen = obj[i].mBaseLength]
            /\ UNCHANGED aborted
    /\ UNCHANGED <<build, mPageSize, status, obj, osState,
                   queryFailures>>

\* A stub that reports success.
Win32AdviseReportsSuccess(advice) == [ret |-> "0", adv |-> "none"]

\* The result of the _WIN32 stub: no call, -1.
Win32AdviseResult(advice) == [ret |-> "-1", adv |-> "none"]

\* int FileMap::advise(MapAdvice), _WIN32
AdviseWin32(i, advice) ==
    /\ UNCHANGED threads
    /\ platform = "mingw"
    /\ ~aborted
    /\ status[i] = "live"
    /\ lastOp' = [AdviseCall(i) EXCEPT !.ret = Win32AdviseResult(advice).ret,
                                       !.adv = Win32AdviseResult(advice).adv]
    /\ UNCHANGED <<build, aborted, mPageSize, status, obj, osState,
                   queryFailures>>

\* ---------------------------------------------------------------- the program
Next ==
    \/ \E i \in Inst : DefaultConstruct(i)
    \/ \E d \in Inst, s \in Inst : MoveConstruct(d, s)
    \/ \E d \in Inst, s \in Inst : MoveAssign(d, s)
    \/ \E i \in Inst : Destroy(i)
    \/ \E i \in Inst, n \in Names, fd \in Fds, off \in Offsets, len \in Lengths,
          ro \in BOOLEAN : CreatePosix(i, n, fd, off, len, ro)
    \/ \E i \in Inst, n \in Names, fd \in Fds, off \in Offsets, len \in Lengths,
          ro \in BOOLEAN : CreateMingw(i, n, fd, off, len, ro)
    \/ \E i \in Inst, a \in MapAdvice : AdvisePosix(i, a)
    \/ \E i \in Inst, a \in MapAdvice : AdviseWin32(i, a)

Spec == Init /\ [][Next]_vars

\* ------------------------------------------- create on concurrent threads
\* Thread t runs create(NULL, fd, offset, length, true) on object t, its own,
\* with arguments that meet the asserts of lines 172-174.  mPageSize is a plain
\* static long with no lock: each read and each write of it is a step of its
\* own, and the steps of the threads interleave freely.  What a thread does to
\* its own object and locals is folded into the step that follows.
InitConcurrent ==
    /\ \E b \in Builds : platform = b[1] /\ ndebug = b[2]
    /\ aborted = FALSE
    /\ mPageSize = -1
    /\ status = [i \in Inst |-> "live"]
    /\ \E garbage \in Indeterminate : obj = [i \in Inst |-> DefaultFields(garbage)]
    /\ nextMap = 1
    /\ unmapCount = [m \in MapIds |-> 0]
    /\ nameFrees = [m \in MapIds |-> 0]
    /\ handleCloses = [m \in MapIds |-> 0]
    /\ queryFailures = 0
    /\ lastOp = Idle
    /\ pc = [t \in Inst |-> "idle"]
    /\ reg = [t \in Inst |-> NoCall]

ThreadFrame == UNCHANGED <<build, aborted, status, lastOp>>

\* if (mPageSize == -1): the read of line 177 / 132.
ThreadEnter(t) ==
    /\ pc[t] = "idle"
    /\ \E offset \in Offsets, length \in 1..MaxLength :
         reg' = [reg EXCEPT ![t] = [NoCall EXCEPT !.offset = offset, !.length = length]]
    /\ pc' = [pc EXCEPT ![t] = IF NeedsQuery(mPageSize) THEN "query" ELSE "adjust"]
    /\ UNCHANGED <<mPageSize, obj, osState, queryFailures>>
    /\ ThreadFrame

\* mPageSize = sysconf(_SC_PAGESIZE) (178); GetSystemInfo and the store (135-136).
ThreadQuery(t) ==
    /\ pc[t] = "query"
    /\ \E sys \in (IF platform = "posix" THEN SysconfResults ELSE {PageSize}) :
         /\ mPageSize' = PageSizeAfterQuery(sys)
         /\ queryFailures' = IF sys = -1 THEN queryFailures + 1 ELSE queryFailures
    /\ pc' = [pc EXCEPT ![t] = IF platform = "posix" THEN "recheck" ELSE "adjust"]
    /\ UNCHANGED <<obj, osState, reg>>
    /\ ThreadFrame

\* if (mPageSize == -1) return false: the read of line 179.
ThreadRecheck(t) ==
    /\ pc[t] = "recheck"
    /\ IF mPageSize = -1
       THEN /\ pc' = [pc EXCEPT ![t] = "done"]
            /\ reg' = [reg EXCEPT ![t].ret = "false"]
       ELSE /\ pc' = [pc EXCEPT ![t] = "adjust"]
            /\ UNCHANGED reg
    /\ UNCHANGED <<mPageSize, obj, osState, queryFailures>>
    /\ ThreadFrame

\* adjust = offset % mPageSize: the read of line 185 / 149, and lines 186-187.
\* On MinGW lines 141-147 come first.
ThreadAdjust(t) ==
    /\ pc[t] = "adjust"
    /\ \E fd \in {f \in Fds : f >= 0} :
       \E cfmOk \in {CreateFileMappingCanSucceed(fd, Prot(TRUE)), FALSE} :
         IF platform = "mingw" /\ ~cfmOk
         THEN /\ obj' = [obj EXCEPT ![t].mFileHandle = OsfHandle(fd),
                                    ![t].mFileMapping = NULL]
              /\ pc' = [pc EXCEPT ![t] = "done"]
              /\ reg' = [reg EXCEPT ![t].ret = "false"]
         ELSE LET adjust == Adjust(reg[t].offset, mPageSize)
              IN  /\ obj' = IF platform = "mingw"
                            THEN [obj EXCEPT ![t].mFileHandle = OsfHandle(fd)]
                            ELSE obj
                  /\ pc' = [pc EXCEPT ![t] = "map"]
                  /\ reg' = [reg EXCEPT ![t].ps = mPageSize,
                                        ![t].adjust = adjust,
                                        ![t].adjOffset = AdjOffset(reg[t].offset, adjust),
                                        ![t].adjLength = AdjLength(reg[t].length, adjust)]
    /\ UNCHANGED <<mPageSize, osState, queryFailures>>
    /\ ThreadFrame

\* The mapping call (194-200 / 153-164) and the common tail (203-214).
ThreadMap(t) ==
    /\ pc[t] = "map"
    /\ \E fd \in {f \in Fds : f >= 0} :
         LET r == reg[t]
             can == /\ nextMap <= MaxMaps
                    /\ IF platform = "posix"
                       THEN MmapCanSucceed(fd, r.adjLength, Prot(TRUE), r.adjOffset)
                       ELSE MapViewCanSucceed(r.adjLength, DWORD(r.adjOffset))
             base == MapBase(nextMap)
             held == IF platform = "mingw"
                     THEN [obj[t] EXCEPT !.mFileMapping = MappingHandle(nextMap),
                                         !.mBasePtr = base]
                     ELSE [obj[t] EXCEPT !.mBasePtr = base]
         IN  \E ok \in {can, FALSE} :
             IF ok
             THEN /\ obj' = [obj EXCEPT ![t] =
                               CreatedFields(held, base, "null", nextMap,
                                             r.offset, r.length, r.adjust, r.adjLength)]
                  /\ nextMap' = nextMap + 1
                  /\ reg' = [reg EXCEPT ![t].ret = "true"]
             ELSE /\ obj' = [obj EXCEPT ![t] =
                               IF platform = "mingw"
                               THEN [obj[t] EXCEPT !.mBasePtr = NULL, !.mFileMapping = NULL]
                               ELSE MmapFailedFields(obj[t])]
                  /\ reg' = [reg EXCEPT ![t].ret = "false"]
                  /\ UNCHANGED nextMap
    /\ pc' = [pc EXCEPT ![t] = "done"]
    /\ UNCHANGED <<mPageSize, unmapCount, nameFrees, handleCloses, queryFailures>>
    /\ ThreadFrame

NextConcurrent ==
    \/ \E t \in Inst : ThreadEnter(t)
    \/ \E t \in Inst : ThreadQuery(t)
    \/ \E t \in Inst : ThreadRecheck(t)
    \/ \E t \in Inst : ThreadAdjust(t)
    \/ \E t \in Inst : ThreadMap(t)

SpecConcurrent == InitConcurrent /\ [][NextConcurrent]_vars

\* ==================================================================== claims
Live(i) == status[i] = "live"
Created == 1..(nextMap - 1)
\* Mapping m is mapped in the address space.
Mapped(m) == m \in Created /\ unmapCount[m] = 0
\* The fields of the Mapped Region: sourceName, physicalBase, physicalLength,
\* logicalOffset, logicalBase, logicalLength.
RegionFields(r) ==
    <<r.mFileName, r.mBasePtr, r.mBaseLength, r.mDataOffset, r.mDataPtr, r.mDataLength>>
Empty(r) == r.mBasePtr = NULL /\ r.mDataPtr = NULL /\ r.mFileName = NULL
\* The step just taken was a call of op.
Did(op) == lastOp'.op = op
IsMove == lastOp'.op \in {"moveConstruct", "moveAssign"}

\* C1: once every object has been destroyed, every mapping a successful
\* create established has been released exactly once; and no mapping is ever
\* released more than once.
C1_ReleasedExactlyOnce ==
    /\ \A m \in MapIds : unmapCount[m] <= 1
    /\ (\A i \in Inst : ~Live(i)) => \A m \in Created : unmapCount[m] = 1

\* C2: a move assignment onto another object that holds a mapping releases
\* that mapping and frees that object's name, or leaves them referenced by a
\* live object: neither is left with no owner.
C2_MoveAssignReleasesPrior ==
    [][ (Did("moveAssign") /\ lastOp'.self # lastOp'.other
           /\ obj[lastOp'.self].mBasePtr # NULL)
        => LET old == obj[lastOp'.self]
               m == MapOf(old.mBasePtr)
           IN  /\ \/ unmapCount'[m] = unmapCount[m] + 1
                  \/ \E j \in Inst : status'[j] = "live" /\ obj'[j].mBasePtr = old.mBasePtr
               /\ old.mFileName # NULL =>
                    \/ nameFrees'[old.mFileName] = nameFrees[old.mFileName] + 1
                    \/ \E j \in Inst : status'[j] = "live"
                                        /\ obj'[j].mFileName = old.mFileName ]_vars

\* C3: a move (construction or assignment) from a mapped source into another
\* object gives the destination the six fields the source had and leaves the
\* source's mBasePtr, mDataPtr and mFileName NULL; destroying an object in
\* that state issues no release call; no mapping is released twice.
C3_MoveTransfers ==
    /\ [][ (IsMove /\ lastOp'.self # lastOp'.other /\ obj[lastOp'.other].mBasePtr # NULL)
           => /\ RegionFields(obj'[lastOp'.self]) = RegionFields(obj[lastOp'.other])
              /\ Empty(obj'[lastOp'.other]) ]_vars
    /\ [][ (Did("destroy") /\ Empty(obj[lastOp'.self]))
           => /\ lastOp'.unmaps = 0 /\ lastOp'.frees = 0 /\ lastOp'.closed = 0
              /\ osState' = osState ]_vars
    /\ [](\A m \in MapIds : unmapCount[m] <= 1)

C3_Witness ==
    /\ lastOp.op \in {"moveConstruct", "moveAssign"}
    /\ lastOp.self # lastOp.other
    /\ obj[lastOp.self].mBasePtr # NULL
    /\ Empty(obj[lastOp.other])

\* C4: every live object with a non-NULL mBasePtr has
\* mBaseLength = mDataLength + (mDataOffset mod mPageSize) and
\* mDataPtr = mBasePtr + (mDataOffset mod mPageSize), so that mDataPtr = mBasePtr
\* when mDataOffset is a multiple of the page size.
C4_LengthsAndBases ==
    \A i \in Inst :
        (Live(i) /\ obj[i].mBasePtr # NULL) =>
            /\ mPageSize > 0
            /\ obj[i].mBaseLength = obj[i].mDataLength + (obj[i].mDataOffset % mPageSize)
            /\ obj[i].mDataPtr = obj[i].mBasePtr + (obj[i].mDataOffset % mPageSize)
            /\ (obj[i].mDataOffset % mPageSize = 0 => obj[i].mDataPtr = obj[i].mBasePtr)

\* C5: a create on an object that holds a mapping is rejected (it fails or
\* aborts) and leaves the held mapping in place.
C5_DoubleCreateRejected ==
    [][ (Did("create") /\ obj[lastOp'.self].mBasePtr # NULL)
        => /\ lastOp'.ret \in {"false", "abort"}
           /\ obj'[lastOp'.self].mBasePtr = obj[lastOp'.self].mBasePtr ]_vars

C7_NoZeroLengthMapping ==
    \A i \in Inst : (Live(i) /\ obj[i].mBasePtr # NULL) => obj[i].mDataLength > 0

\* C8: a create in which the page-size query fails returns false, asks the OS
\* for no mapping, changes no object and leaves mPageSize at -1; and every
\* create that runs while mPageSize is -1 queries the page size.
C8_DiscoveryFailure ==
    /\ [][ (Did("create") /\ lastOp'.query = "fail")
           => /\ lastOp'.ret = "false"
              /\ lastOp'.mapCall = "none" /\ lastOp'.cfm = "none"
              /\ obj' = obj
              /\ osState' = osState
              /\ mPageSize' = -1 ]_vars
    /\ [][ (Did("create") /\ mPageSize = -1 /\ lastOp'.ret # "abort")
           => lastOp'.query # "none" ]_vars

\* A create queried the page size again after an earlier query had failed.
C8_Witness ==
    /\ queryFailures > 0
    /\ lastOp.op = "create"
    /\ lastOp.query = "ok"

\* Object i refers to a mapping that is mapped.
HoldsMapping(i) == \E m \in MapIds : Mapped(m) /\ obj[i].mBasePtr = MapBase(m)
StaysLive(i) == status[i] = "live" /\ status'[i] = "live"
Gains(i) == StaysLive(i) /\ obj[i].mBasePtr = NULL /\ obj'[i].mBasePtr # NULL
Loses(i) == StaysLive(i) /\ obj[i].mBasePtr # NULL /\ obj'[i].mBasePtr = NULL
MovedFrom(i) == IsMove /\ lastOp'.other = i
MovedInto(i) == IsMove /\ lastOp'.self = i /\ lastOp'.other # i
CreateOk(i) == Did("create") /\ lastOp'.self = i /\ lastOp'.ret = "true"
\* mBasePtr is NULL after construction, in the source after a move and after a
\* failed create on an empty object; it is not NULL after a successful create
\* and after a move from a mapped source; it becomes non-NULL in no other way.
C9_NullAndGain ==
    /\ Did("construct") => obj'[lastOp'.self].mBasePtr = NULL
    /\ IsMove => obj'[lastOp'.other].mBasePtr = NULL
    /\ (Did("create") /\ lastOp'.ret = "false" /\ Empty(obj[lastOp'.self]))
         => obj'[lastOp'.self].mBasePtr = NULL
    /\ \A i \in Inst : CreateOk(i) => obj'[i].mBasePtr # NULL
    /\ \A i \in Inst : (MovedInto(i) /\ obj[lastOp'.other].mBasePtr # NULL)
                          => obj'[i].mBasePtr # NULL
    /\ \A i \in Inst : Gains(i) =>
          CreateOk(i) \/ (MovedInto(i) /\ obj[lastOp'.other].mBasePtr # NULL)

\* C9: mBasePtr is NULL exactly when the object holds no mapping: a non-NULL
\* mBasePtr refers to a mapping that is mapped; mBasePtr is NULL and non-NULL
\* in the cases listed above; and it turns from non-NULL to NULL only when the
\* object is moved from, its mapping then being referenced by the destination
\* (destruction ends the object), never while its mapping stays mapped with no
\* object referring to it.
C9_NullIffNoMapping ==
    /\ [](\A i \in Inst : (Live(i) /\ obj[i].mBasePtr # NULL) => HoldsMapping(i))
    /\ [][C9_NullAndGain]_vars
    /\ [][\A i \in Inst : Loses(i) =>
            /\ MovedFrom(i)
            /\ \/ unmapCount'[MapOf(obj[i].mBasePtr)] > 0
               \/ \E j \in Inst : status'[j] = "live"
                                   /\ obj'[j].mBasePtr = obj[i].mBasePtr ]_vars

\* C10: advise changes no field of any object, not mPageSize, and releases
\* nothing, whatever the hint and the result; the _WIN32 advise returns -1 and
\* calls nothing.
C10_AdviseFrame ==
    [][ Did("advise")
        => /\ obj' = obj
           /\ status' = status
           /\ mPageSize' = mPageSize
           /\ osState' = osState
           /\ (platform = "mingw" => lastOp'.ret = "-1" /\ lastOp'.adv = "none") ]_vars

\* An advisory request failed on a held mapping.
C10_Witness ==
    /\ lastOp.op = "advise"
    /\ lastOp.ret = "-1"
    /\ obj[lastOp.self].mBasePtr # NULL
    /\ Mapped(MapOf(obj[lastOp.self].mBasePtr))

\* C11: destroying an object that holds no mapping (fresh and never mapped, or
\* moved from: its mBasePtr, mDataPtr and mFileName are NULL) calls neither
\* munmap / UnmapViewOfFile, nor free, nor CloseHandle, and changes nothing in
\* the OS; the release-failure diagnostic sits inside the unmap branch, so it is
\* not emitted either.
C11_DestroyEmptyIsNoOp ==
    [][ \A i \in Inst :
          (Did("destroy") /\ lastOp'.self = i /\ Empty(obj[i]))
          => /\ lastOp'.unmaps = 0
             /\ lastOp'.frees = 0
             /\ lastOp'.closed = 0
             /\ unmapCount' = unmapCount
             /\ nameFrees' = nameFrees
             /\ handleCloses' = handleCloses ]_vars

\* A moved-from object was destroyed without a release call while the object it
\* was moved into holds the mapping.
C11_Witness ==
    /\ lastOp.op = "destroy"
    /\ lastOp.unmaps = 0 /\ lastOp.frees = 0 /\ lastOp.closed = 0
    /\ status[lastOp.self] = "dead"
    /\ \E j \in Inst : Live(j) /\ obj[j].mBasePtr # NULL /\ HoldsMapping(j)

\* C12: once mPageSize holds a value other than -1, no create (on any object)
\* queries the OS for the page size or writes mPageSize, mPageSize never
\* changes again, and a create that succeeds places mDataPtr at
\* mBasePtr + offset mod that value.
C12_ResolvedOnce ==
    /\ [][ mPageSize # -1 => mPageSize' = mPageSize ]_vars
    /\ [][ (Did("create") /\ mPageSize # -1) => lastOp'.query = "none" ]_vars
    /\ [][ (Did("create") /\ mPageSize # -1 /\ lastOp'.ret = "true")
            => LET r == obj'[lastOp'.self]
               IN  r.mDataPtr = r.mBasePtr + (r.mDataOffset % mPageSize) ]_vars

\* A second object was mapped by a create that did not query, after the first
\* object's create had resolved the page size.
C12_Witness ==
    /\ lastOp.op = "create" /\ lastOp.query = "none" /\ lastOp.ret = "true"
    /\ mPageSize = PageSize
    /\ \E j \in Inst : j # lastOp.self /\ Live(j) /\ obj[j].mBasePtr # NULL

\* C13: under concurrent first use, every create that reaches the alignment
\* computation (adjust = offset % mPageSize) reads the OS page size there, never
\* the -1 of the uninitialised cache.
C13_ConcurrentFirstUse ==
    \A t \in Inst : pc[t] \in {"map", "done"} => reg[t].ps # -1

\* C14: an advise on an object whose mBasePtr is NULL is rejected (it returns
\* -1 or aborts on an assertion) and issues no madvise.
C14_AdviseGuarded ==
    [][ (Did("advise") /\ obj[lastOp'.self].mBasePtr = NULL)
        => /\ lastOp'.adv = "none"
           /\ lastOp'.ret \in {"-1", "abort"} ]_vars

\* C15: a create asks the OS for the mapping at file offset exactly
\* offset - (offset mod mPageSize), not at that offset cut down to fewer bits,
\* and with length exactly length + (offset mod mPageSize).  Stated of every
\* create that returns true, whose offset and length are then in mDataOffset
\* and mDataLength.
C15_NoOffsetTruncation ==
    /\ [][ (Did("create") /\ lastOp'.ret = "true")
            => LET r == obj'[lastOp'.self]
               IN  lastOp'.reqOff = r.mDataOffset - (r.mDataOffset % mPageSize') ]_vars
    /\ [][ (Did("create") /\ lastOp'.ret = "true")
            => LET r == obj'[lastOp'.self]
               IN  lastOp'.reqLen = r.mDataLength + (r.mDataOffset % mPageSize') ]_vars

\* C16: after every create that returns true, mBaseLength >= mDataLength: the
\* sum length + (offset mod mPageSize) has not wrapped around size_t.
C16_NoSizeWrap ==
    [][ (Did("create") /\ lastOp'.ret = "true")
        => obj'[lastOp'.self].mBaseLength >= obj'[lastOp'.self].mDataLength ]_vars

\* The five hints of MapAdvice; "OTHER" stands for a value outside them.
Hints == MapAdvice \ {"OTHER"}

\* On the build with madvise: an advise with one of the five hints issues
\* madvise on mBasePtr and mBaseLength and returns its result, and no two
\* hints issue the same call.
C17_HintsTranslate ==
    (Did("advise") /\ platform = "posix") =>
        LET i == lastOp'.self
        IN  \A a \in Hints :
                  AdvisePosix(i, a)
                  => /\ lastOp'.adv # "none"
                     /\ lastOp'.advBase = obj[i].mBasePtr
                     /\ lastOp'.advLen = obj[i].mBaseLength
                     /\ lastOp'.cc \in {"0", "-1"}
                     /\ lastOp'.ret = lastOp'.cc
                     /\ \A b \in Hints : lastOp'.adv = SysAdvice(b) => b = a

\* C17 (as amended): the five hints are translated one-to-one, madvise is
\* issued on the physical base and length and its result returned; a value
\* outside the five hints issues no madvise and returns -1 where assert() is
\* compiled out, and aborts on assert(false) where it is compiled in.
C17_AdviseTranslates ==
    /\ [][C17_HintsTranslate]_vars
    /\ [][ (Did("advise") /\ AdvisePosix(lastOp'.self, "OTHER"))
            => /\ lastOp'.adv = "none" /\ lastOp'.cc = "none"
               /\ lastOp'.ret = IF ndebug THEN "-1" ELSE "abort" ]_vars

\* madvise was issued on a mapping whose physical base and length differ from
\* the logical ones.
C17_Witness ==
    /\ lastOp.op = "advise" /\ lastOp.adv = "MADV_SEQUENTIAL" /\ lastOp.cc = "0"
    /\ lastOp.advBase = obj[lastOp.self].mBasePtr
    /\ lastOp.advBase # NULL
    /\ lastOp.advBase # obj[lastOp.self].mDataPtr
    /\ lastOp.advLen # obj[lastOp.self].mDataLength

\* C17 (as stated): the same, with a value outside the five hints always
\* returning -1 without an OS call.
C17_AsStated ==
    /\ [][C17_HintsTranslate]_vars
    /\ [][ (Did("advise") /\ AdvisePosix(lastOp'.self, "OTHER"))
            => /\ lastOp'.adv = "none" /\ lastOp'.cc = "none"
               /\ lastOp'.ret = "-1" ]_vars

\* C18: move-assigning an object that holds a mapping onto itself leaves its
\* mBasePtr, mDataPtr and mFileName as they were (mBasePtr not NULL) and
\* releases nothing.
C18_SelfMoveKeepsMapping ==
    [][ (Did("moveAssign") /\ lastOp'.self = lastOp'.other
           /\ obj[lastOp'.self].mBasePtr # NULL)
        => LET i == lastOp'.self
           IN  /\ obj'[i].mBasePtr = obj[i].mBasePtr
               /\ obj'[i].mDataPtr = obj[i].mDataPtr
               /\ obj'[i].mFileName = obj[i].mFileName
               /\ osState' = osState ]_vars

\* C19: in every live object mDataPtr is NULL exactly when mBasePtr is NULL,
\* and mFileName is not NULL only when mBasePtr is not NULL.
C19_PointersConsistent ==
    \A i \in Inst :
        Live(i) => /\ (obj[i].mDataPtr = NULL) <=> (obj[i].mBasePtr = NULL)
                   /\ obj[i].mFileName # NULL => obj[i].mBasePtr # NULL
====
